---- MODULE Spec2Model ----
(***************************************************************************)
(* Model of populate_syscad_inputs (populate_syscad_inputs_rev2.py) and of *)
(* the sheet analysis of app.py.                                           *)
(*                                                                         *)
(* A cell value is a record [k, v]: k is the Python type of the value     *)
(* ("none", "str", "int", "float") and v an integer: 0 for None, the      *)
(* identity of the string (0 is the empty string), the integer itself, or *)
(* the float in thousandths (12345 is 12.345).                             *)
(* Text that the code inspects (column-1 labels, column-2 parameter names, *)
(* streamtable tag names, mapping keys) is a sequence of tokens, so that   *)
(* substring tests and strip() are computed; None and "" are both the     *)
(* empty sequence there: the code only tests those cells for truth.        *)
(* A master sheet is [label, name, unit, val]: columns 1, 2, 3 and the     *)
(* columns 4..MaxCol.  A streamtable sheet is [unit, tag, val]: columns 2, *)
(* 3 and 4..MaxCol.                                                        *)
(* Parameter names and tag names are text or empty (strip() of a number   *)
(* raises), unit-tag header cells and units are strings or empty, floats  *)
(* are non-negative.  Fonts and borders are not modelled.                  *)
(***************************************************************************)
EXTENDS Integers, Sequences, FiniteSets, TLC

VARIABLES master, stream, mapping_dict, masterIn, run, pc, missing_sheets,
          todo, eq_type, stream_unit_tags, stream_tag_to_row, param_rows,
          master_unit_tags, col_off, writes

vars == <<master, stream, mapping_dict, masterIn, run, pc, missing_sheets,
          todo, eq_type, stream_unit_tags, stream_tag_to_row, param_rows,
          master_unit_tags, col_off, writes>>

----------------------------------------------------------------------------
(* Bounds of the model *)

MaxRow == 5

SMaxRow == 4

MaxCol == 5

MaxRuns == 2

MaxPairs == 2

(* Layout constants of the code *)

MasterHeaderRow == 3

StreamHeaderRow == 1

StreamBodyStart == 3

FirstTagCol == 4

Rows == 1..MaxRow

SRows == 1..SMaxRow

ValCols == FirstTagCol..MaxCol

----------------------------------------------------------------------------
(* Cell values *)

NoneV == [k |-> "none", v |-> 0]

Str(i) == [k |-> "str", v |-> i]

Int_(n) == [k |-> "int", v |-> n]

Float(m) == [k |-> "float", v |-> m]

\* Python truth of a cell value: None, "", 0 and 0.0 are false.
Truthy(x) == x.k # "none" /\ x.v # 0

\* Python truth of a text cell (None and "" are the empty sequence).
TruthyText(t) == Len(t) > 0

\* isinstance(val, float)
IsFloat(x) == x.k = "float"

\* Thousandths whose double lies above / below the decimal tie (12.345 is
\* stored as 12.34500000000000064, 2.675 as 2.67499999999999982).
TiesStoredAbove == {12345}

TiesStoredBelow == {2675}

\* round(val, 2) of a non-negative float in thousandths: correctly rounded
\* from the stored double, ties of exactly representable values to even.
Round2(m) ==
    LET r == m % 10
        lo == m - r
        hi == lo + 10
    IN  IF r < 5 THEN lo
        ELSE IF r > 5 THEN hi
        ELSE IF m \in TiesStoredAbove THEN hi
        ELSE IF m \in TiesStoredBelow THEN lo
        ELSE IF (lo \div 10) % 2 = 0 THEN lo ELSE hi

\* round(val, 2) if isinstance(val, float) else val
WrittenValue(val) == IF IsFloat(val) THEN Float(Round2(val.v)) ELSE val

----------------------------------------------------------------------------
(* Text *)

SPACE == " "

RECURSIVE LStrip(_)
LStrip(t) == IF Len(t) > 0 /\ Head(t) = SPACE THEN LStrip(Tail(t)) ELSE t

RECURSIVE RStrip(_)
RStrip(t) ==
    IF Len(t) > 0 /\ t[Len(t)] = SPACE THEN RStrip(SubSeq(t, 1, Len(t) - 1)) ELSE t

\* str.strip()
Strip(t) == RStrip(LStrip(t))

\* label and "<tok>" in str(label)
Contains(label, tok) == \E i \in DOMAIN label : label[i] = tok

OpenLabel == "SysCAD Inputs"

CloseLabel == "Engineering Inputs"

----------------------------------------------------------------------------
(* Sheet reading *)

\* [c.value for c in ws[row][3:] if c.value]: the truthy cells of columns
\* 4.. of a row, in column order.
RECURSIVE TruthyFrom(_, _)
TruthyFrom(rowvals, c) ==
    IF c > MaxCol THEN <<>>
    ELSE IF Truthy(rowvals[c]) THEN <<rowvals[c]>> \o TruthyFrom(rowvals, c + 1)
    ELSE TruthyFrom(rowvals, c + 1)

UnitTags(rowvals) == TruthyFrom(rowvals, FirstTagCol)

\* list.index(x): position (from 0) of the first element equal to x
IndexOf(seq, x) == (CHOOSE i \in DOMAIN seq : seq[i] = x /\ \A j \in 1..(i-1) : seq[j] # x) - 1

InList(seq, x) == \E i \in DOMAIN seq : seq[i] = x

\* dict[key] = value
Put(d, key, value) == [x \in DOMAIN d \cup {key} |-> IF x = key THEN value ELSE d[x]]

EmptyDict == [x \in {} |-> 0]

\* {row[2].value.strip(): r_idx for r_idx, row in enumerate(iter_rows(min_row=3)) if row[2].value}
RECURSIVE TagRowsFrom(_, _, _)
TagRowsFrom(sws, r, acc) ==
    IF r > SMaxRow THEN acc
    ELSE IF TruthyText(sws.tag[r]) THEN TagRowsFrom(sws, r + 1, Put(acc, Strip(sws.tag[r]), r))
    ELSE TagRowsFrom(sws, r + 1, acc)

StreamTagToRow(sws) == TagRowsFrom(sws, StreamBodyStart, EmptyDict)

\* The scan of lines 51-61 from row r on: the row that opens the block is
\* itself read for a parameter name, the row that closes it ends the scan,
\* and a repeated name overwrites the row recorded before.
RecordParam_first(acc, key, r) == IF key \in DOMAIN acc THEN acc ELSE Put(acc, key, r)

\* param_rows[pname.strip()] = r
RecordParam(acc, key, r) == Put(acc, key, r)

RECURSIVE ScanRows_openExclusive(_, _, _, _)
ScanRows_openExclusive(mws, r, in_syscad, acc) ==
    IF r > MaxRow THEN acc
    ELSE IF ~in_syscad
         THEN ScanRows_openExclusive(mws, r + 1, Contains(mws.label[r], OpenLabel), acc)
    ELSE IF Contains(mws.label[r], CloseLabel) THEN acc
    ELSE IF TruthyText(mws.name[r])
         THEN ScanRows_openExclusive(mws, r + 1, TRUE, RecordParam(acc, Strip(mws.name[r]), r))
    ELSE ScanRows_openExclusive(mws, r + 1, TRUE, acc)

RECURSIVE ScanRows(_, _, _, _)
ScanRows(mws, r, in_syscad, acc) ==
    IF r > MaxRow THEN acc
    ELSE LET label == mws.label[r]
             inside == in_syscad \/ Contains(label, OpenLabel)
         IN  IF ~inside THEN ScanRows(mws, r + 1, FALSE, acc)
             ELSE IF Contains(label, CloseLabel) THEN acc
             ELSE IF TruthyText(mws.name[r])
                  THEN ScanRows(mws, r + 1, TRUE, RecordParam(acc, Strip(mws.name[r]), r))
             ELSE ScanRows(mws, r + 1, TRUE, acc)

ParamRows(mws) == ScanRows(mws, 1, FALSE, EmptyDict)

\* app.py: the list of stripped parameter names of the block, in row order
RECURSIVE ExtractFrom(_, _, _)
ExtractFrom(ws, r, in_syscad) ==
    IF r > MaxRow THEN <<>>
    ELSE LET cell_val == ws.label[r]
             inside == in_syscad \/ Contains(cell_val, OpenLabel)
         IN  IF ~inside THEN ExtractFrom(ws, r + 1, FALSE)
             ELSE IF Contains(cell_val, CloseLabel) THEN <<>>
             ELSE IF TruthyText(ws.name[r])
                  THEN <<Strip(ws.name[r])>> \o ExtractFrom(ws, r + 1, TRUE)
             ELSE ExtractFrom(ws, r + 1, TRUE)

extract_syscad_params(ws) == ExtractFrom(ws, 1, FALSE)

----------------------------------------------------------------------------
(* Workbook level *)

\* The sheet names, in sorted order
EqNames == <<"E1", "E2", "E3">>

NameSet == {EqNames[i] : i \in DOMAIN EqNames}

Rank(n) == CHOOSE i \in DOMAIN EqNames : EqNames[i] = n

IsSorted(seq) == \A i, j \in DOMAIN seq : i < j => Rank(seq[i]) < Rank(seq[j])

\* The lists that list(a_set) can produce: every order of the set
ListsOf(S) ==
    {q \in [1..Cardinality(S) -> S] : \A i, j \in 1..Cardinality(S) : i # j => q[i] # q[j]}

\* app.py: sorted(master_equipment - stream_equipment)
RECURSIVE SortedFrom(_, _)
SortedFrom(S, i) ==
    IF i > Len(EqNames) THEN <<>>
    ELSE IF EqNames[i] \in S THEN <<EqNames[i]>> \o SortedFrom(S, i + 1)
    ELSE SortedFrom(S, i + 1)

missing_equipment == SortedFrom(DOMAIN masterIn \ DOMAIN stream, 1)

\* list(master_sheets - stream_sheets)
MissingLists(S) == ListsOf(S)

\* mapping_dict.get(eq_type, {})
ParamMapping(eq) == IF eq \in DOMAIN mapping_dict THEN mapping_dict[eq] ELSE <<>>

HasMapping_always(eq) == TRUE

\* not (not param_mapping)
HasMapping(eq) == Len(ParamMapping(eq)) > 0

----------------------------------------------------------------------------
(* One column of the populate loop *)

AfterMiss_break(i, n) == n + 1

\* continue: go on with the next pair
AfterMiss(i, n) == i + 1

\* stream_unit and master_unit != stream_unit
UnitWanted(stream_unit, master_unit) == Truthy(stream_unit) /\ master_unit # stream_unit

\* The loop over param_mapping.items() for one (col_off, unit_tag): st is
\* [ws, log], the master sheet and the record of the cells written (which
\* run, sheet and mapped pair wrote which cell).
RECURSIVE PairsFrom(_, _, _, _, _, _)
PairsFrom(st, sws, pairs, i, m_col, stream_col) ==
    IF i > Len(pairs) THEN st
    ELSE LET master_param == pairs[i][1]
             stream_tag == pairs[i][2]
         IN  IF master_param \notin DOMAIN param_rows \/ stream_tag \notin DOMAIN stream_tag_to_row
             THEN PairsFrom(st, sws, pairs, AfterMiss(i, Len(pairs)), m_col, stream_col)
             ELSE LET m_row == param_rows[master_param]
                      s_row == stream_tag_to_row[stream_tag]
                      val == sws.val[s_row][stream_col]
                      ws1 == IF val.k # "none"
                             THEN [st.ws EXCEPT !.val[m_row][m_col] = WrittenValue(val)]
                             ELSE st.ws
                      log1 == IF val.k # "none"
                              THEN st.log \cup {[run |-> run, eq |-> eq_type, kind |-> "value", row |-> m_row,
                                                 col |-> m_col, param |-> master_param,
                                                 tag |-> stream_tag]}
                              ELSE st.log
                      stream_unit == sws.unit[s_row]
                      master_unit == ws1.unit[m_row]
                      ws2 == IF UnitWanted(stream_unit, master_unit)
                             THEN [ws1 EXCEPT !.unit[m_row] = stream_unit]
                             ELSE ws1
                      log2 == IF UnitWanted(stream_unit, master_unit)
                              THEN log1 \cup {[run |-> run, eq |-> eq_type, kind |-> "unit", row |-> m_row,
                                                col |-> 3, param |-> master_param,
                                                tag |-> stream_tag]}
                              ELSE log1
                  IN  PairsFrom([ws |-> ws2, log |-> log2], sws, pairs, i + 1, m_col, stream_col)

\* for i, tag in enumerate(stream_unit_tags): master_ws.cell(row=3, column=4 + i, value=tag)
HeaderCopy(mws, tags) ==
    [mws EXCEPT !.val[MasterHeaderRow] =
        [c \in ValCols |-> IF c - FirstTagCol + 1 \in DOMAIN tags
                           THEN tags[c - FirstTagCol + 1]
                           ELSE mws.val[MasterHeaderRow][c]]]

\* the cells the header copy writes
HeaderWrites(eq, tags) ==
    {[run |-> run, eq |-> eq, kind |-> "header", row |-> MasterHeaderRow,
      col |-> FirstTagCol + i - 1, param |-> <<>>, tag |-> <<>>] : i \in DOMAIN tags}

HeaderRowRead_stale(eq) == masterIn[eq].val[MasterHeaderRow]

\* master_ws[3][3:], read after the header copy
HeaderRowRead(eq) == master[eq].val[MasterHeaderRow]

----------------------------------------------------------------------------
(* The steps of populate_syscad_inputs *)

Locals == <<eq_type, stream_unit_tags, stream_tag_to_row, param_rows, master_unit_tags, col_off>>

Inputs == <<stream, mapping_dict, masterIn, run>>

\* lines 14-25
Load ==
    /\ pc = "start"
    /\ todo' = DOMAIN master \cap DOMAIN stream
    /\ missing_sheets' \in MissingLists(DOMAIN master \ DOMAIN stream)
    /\ pc' = "sheets"
    /\ UNCHANGED <<master, writes, Locals, Inputs>>

\* lines 27-34: a common sheet with nothing mapped
NextSheetUnmapped ==
    /\ pc = "sheets"
    /\ \E eq \in todo :
          /\ ~HasMapping(eq)
          /\ todo' = todo \ {eq}
    /\ UNCHANGED <<master, writes, pc, missing_sheets, Locals, Inputs>>

\* lines 27-41: a common sheet with a mapping; the streamtable unit tags are
\* read and written into row 3 of the master sheet
NextSheetMapped ==
    /\ pc = "sheets"
    /\ \E eq \in todo :
          /\ HasMapping(eq)
          /\ eq_type' = eq
          /\ stream_unit_tags' = UnitTags(stream[eq].val[StreamHeaderRow])
          /\ master' = [master EXCEPT ![eq] = HeaderCopy(@, stream_unit_tags')]
          /\ writes' = writes \cup HeaderWrites(eq, stream_unit_tags')
    /\ pc' = "lookups"
    /\ UNCHANGED <<todo, missing_sheets, stream_tag_to_row, param_rows,
                   master_unit_tags, col_off, Inputs>>

\* lines 43-63
BuildLookups ==
    /\ pc = "lookups"
    /\ stream_tag_to_row' = StreamTagToRow(stream[eq_type])
    /\ param_rows' = ParamRows(master[eq_type])
    /\ master_unit_tags' = UnitTags(HeaderRowRead(eq_type))
    /\ col_off' = 0
    /\ pc' = "populate"
    /\ UNCHANGED <<master, writes, todo, missing_sheets, eq_type, stream_unit_tags, Inputs>>

\* lines 66-68: a master unit tag that the streamtable does not have
PopulateSkipColumn ==
    /\ pc = "populate"
    /\ col_off < Len(master_unit_tags)
    /\ ~InList(stream_unit_tags, master_unit_tags[col_off + 1])
    /\ col_off' = col_off + 1
    /\ UNCHANGED <<master, writes, pc, todo, missing_sheets, eq_type, stream_unit_tags,
                   stream_tag_to_row, param_rows, master_unit_tags, Inputs>>

\* lines 66-86: one shared unit tag, every mapped pair
PopulateColumn ==
    /\ pc = "populate"
    /\ col_off < Len(master_unit_tags)
    /\ InList(stream_unit_tags, master_unit_tags[col_off + 1])
    /\ LET unit_tag == master_unit_tags[col_off + 1]
           stream_col == IndexOf(stream_unit_tags, unit_tag) + 4
           m_col == col_off + 4
           st == PairsFrom([ws |-> master[eq_type], log |-> writes], stream[eq_type],
                           ParamMapping(eq_type), 1, m_col, stream_col)
       IN  /\ master' = [master EXCEPT ![eq_type] = st.ws]
           /\ writes' = st.log
    /\ col_off' = col_off + 1
    /\ UNCHANGED <<pc, todo, missing_sheets, eq_type, stream_unit_tags,
                   stream_tag_to_row, param_rows, master_unit_tags, Inputs>>

\* the end of the column loop of one sheet
EndSheet ==
    /\ pc = "populate"
    /\ col_off = Len(master_unit_tags)
    /\ todo' = todo \ {eq_type}
    /\ pc' = "sheets"
    /\ UNCHANGED <<master, writes, missing_sheets, Locals, Inputs>>

\* lines 88-91
Save ==
    /\ pc = "sheets"
    /\ todo = {}
    /\ pc' = "done"
    /\ UNCHANGED <<master, writes, todo, missing_sheets, Locals, Inputs>>

\* app.py line 215 once more, on the workbook the last call returned (what
\* save and load_workbook keep of a cell is its value: None, a non-empty
\* string, an int, a float), with the same streamtable and mapping
Rerun ==
    /\ pc = "done"
    /\ run < MaxRuns
    /\ run' = run + 1
    /\ masterIn' = master
    /\ pc' = "start"
    /\ missing_sheets' = <<>>
    /\ todo' = {}
    /\ eq_type' = ""
    /\ stream_unit_tags' = <<>>
    /\ stream_tag_to_row' = EmptyDict
    /\ param_rows' = EmptyDict
    /\ master_unit_tags' = <<>>
    /\ col_off' = 0
    /\ UNCHANGED <<master, stream, mapping_dict, writes>>

Next ==
    \/ Load
    \/ NextSheetUnmapped
    \/ NextSheetMapped
    \/ BuildLookups
    \/ PopulateSkipColumn
    \/ PopulateColumn
    \/ EndSheet
    \/ Save
    \/ Rerun

----------------------------------------------------------------------------
(* Inputs: a base workbook pair and mapping, and families that vary one    *)
(* part of it each                                                         *)

P == <<"P">>

PPadded == <<SPACE, "P", SPACE>>

Q == <<"Q">>

R == <<"R">>

T == <<"T">>

U == <<"U">>

Z == <<"Z">>

TagA == Str(1)

TagB == Str(2)

TagX == Str(3)

TagY == Str(4)

KgH == Str(11)

M3H == Str(12)

Text5 == Str(5)

EmptyRow == [c \in ValCols |-> NoneV]

BaseMaster ==
    [label |-> [r \in Rows |-> IF r = 4 THEN <<OpenLabel>> ELSE <<>>],
     name  |-> [r \in Rows |-> IF r = 4 THEN P ELSE IF r = 5 THEN Q ELSE <<>>],
     unit  |-> [r \in Rows |-> IF r = 4 THEN KgH ELSE NoneV],
     val   |-> [r \in Rows |->
                 IF r = MasterHeaderRow THEN [c \in ValCols |-> IF c = 4 THEN TagX ELSE TagY]
                 ELSE IF r = 4 THEN [c \in ValCols |-> Int_(9)]
                 ELSE EmptyRow]]

BaseStream ==
    [unit |-> [r \in SRows |-> IF r = 3 THEN M3H ELSE NoneV],
     tag  |-> [r \in SRows |-> IF r = 3 THEN T ELSE IF r = 4 THEN U ELSE <<>>],
     val  |-> [r \in SRows |->
                 IF r = StreamHeaderRow THEN [c \in ValCols |-> IF c = 4 THEN TagA ELSE NoneV]
                 ELSE IF r = 3 THEN [c \in ValCols |-> IF c = 4 THEN Float(12345) ELSE Int_(7)]
                 ELSE IF r = 4 THEN [c \in ValCols |-> IF c = 4 THEN Text5 ELSE NoneV]
                 ELSE EmptyRow]]

BasePairs == <<<<P, T>>, <<Q, U>>>>

\* E1 mapped, E2 in both workbooks and unmapped, E3 in the master only
Workbooks(m1, s1, pairs) ==
    /\ master = [n \in {"E1", "E2", "E3"} |-> IF n = "E1" THEN m1 ELSE BaseMaster]
    /\ stream = [n \in {"E1", "E2"} |-> IF n = "E1" THEN s1 ELSE BaseStream]
    /\ mapping_dict = [n \in {"E1"} |-> pairs]

Fresh ==
    /\ masterIn = master
    /\ run = 1
    /\ pc = "start"
    /\ missing_sheets = <<>>
    /\ todo = {}
    /\ eq_type = ""
    /\ stream_unit_tags = <<>>
    /\ stream_tag_to_row = EmptyDict
    /\ param_rows = EmptyDict
    /\ master_unit_tags = <<>>
    /\ col_off = 0
    /\ writes = {}

\* which sheets exist and which are mapped
InitDocs ==
    /\ \E M \in SUBSET NameSet \ {{}}, S \in SUBSET NameSet, D \in SUBSET NameSet :
          /\ master = [n \in M |-> BaseMaster]
          /\ stream = [n \in S |-> BaseStream]
          /\ mapping_dict \in [D -> {<<>>, BasePairs}]
    /\ Fresh

MasterHdrVals == {NoneV, TagA, TagX}

StreamHdrVals == {NoneV, TagA, TagB}

\* the two unit-tag header rows
InitHdr ==
    /\ \E mh \in [ValCols -> MasterHdrVals], sh \in [ValCols -> StreamHdrVals] :
          Workbooks([BaseMaster EXCEPT !.val[MasterHeaderRow] = mh],
                    [BaseStream EXCEPT !.val[StreamHeaderRow] = sh], BasePairs)
    /\ Fresh

ValSamples == {NoneV, Int_(0), Int_(7), Text5, Float(12345), Float(2675), Float(125),
               Float(375), Float(1500)}

\* values and units
InitVal ==
    /\ \E su \in {NoneV, Str(0), KgH, M3H}, mu \in {NoneV, KgH, M3H}, v \in ValSamples,
          sh \in {EmptyRow, BaseStream.val[StreamHeaderRow]},
          mh \in {EmptyRow, BaseMaster.val[MasterHeaderRow]} :
          Workbooks([BaseMaster EXCEPT !.val[MasterHeaderRow] = mh, !.unit[4] = mu],
                    [BaseStream EXCEPT !.val[StreamHeaderRow] = sh, !.unit[3] = su,
                                       !.val[3][4] = v], BasePairs)
    /\ Fresh

MapKeys == {P, Q, R, PPadded}

MapTags == {T, U, Z}

PairSeqs ==
    {q \in UNION {[1..n -> MapKeys \X MapTags] : n \in 0..MaxPairs} :
        \A i, j \in DOMAIN q : i # j => q[i][1] # q[j][1]}

\* the mapping of the processed sheet: an insertion-ordered dict
InitMap ==
    /\ \E pairs \in PairSeqs : Workbooks(BaseMaster, BaseStream, pairs)
    /\ Fresh

\* column 1 with one opening label in row o and one closing label in row c
\* (0: no such row; o = c: one label that contains both)
Labels(o, c) ==
    [r \in Rows |-> IF r = o /\ r = c THEN <<OpenLabel, "/", CloseLabel>>
                    ELSE IF r = o THEN <<"1.", OpenLabel>>
                    ELSE IF r = c THEN <<CloseLabel>>
                    ELSE <<>>]

\* column 2 with the name "P" in row r1 and " P " in row r2 (0: no such row)
Names(r1, r2) ==
    [r \in Rows |-> IF r = r1 THEN P ELSE IF r = r2 THEN PPadded ELSE <<>>]

\* columns 1 and 2 of the processed master sheet
InitScan ==
    /\ \E o \in 0..MaxRow, c \in 0..MaxRow, r1 \in 0..MaxRow, r2 \in 0..MaxRow :
          Workbooks([BaseMaster EXCEPT !.label = Labels(o, c), !.name = Names(r1, r2)],
                    BaseStream, BasePairs)
    /\ Fresh

Init == InitDocs \/ InitHdr \/ InitVal \/ InitMap \/ InitScan

Spec == Init /\ [][Next]_vars

SpecDocs == InitDocs /\ [][Next]_vars

SpecHdr == InitHdr /\ [][Next]_vars

SpecVal == InitVal /\ [][Next]_vars

SpecMap == InitMap /\ [][Next]_vars

SpecScan == InitScan /\ [][Next]_vars

----------------------------------------------------------------------------
(* Vocabulary of the properties *)

\* n is in both workbooks and has a non-empty mapping
Processed(n) ==
    /\ n \in DOMAIN master \cap DOMAIN stream
    /\ n \in DOMAIN mapping_dict
    /\ mapping_dict[n] # <<>>

MaxOf(S) == CHOOSE x \in S : \A y \in S : y <= x

MinOf(S) == CHOOSE x \in S : \A y \in S : x <= y

OpenRows(mws) == {r \in Rows : Contains(mws.label[r], OpenLabel)}

\* the rows from the first opening row up to, not including, the first
\* closing row at or below it
ScannedRows(mws) ==
    IF OpenRows(mws) = {} THEN {}
    ELSE LET o == MinOf(OpenRows(mws))
             closing == {r \in Rows : r >= o /\ Contains(mws.label[r], CloseLabel)}
         IN  {r \in Rows : r >= o /\ \A c \in closing : r < c}

\* the spec's block: the rows strictly between the opening and the closing row
InteriorRows(mws) ==
    IF OpenRows(mws) = {} THEN {} ELSE ScannedRows(mws) \ {MinOf(OpenRows(mws))}

RowsNamed(mws, rows, k) == {r \in rows : TruthyText(mws.name[r]) /\ Strip(mws.name[r]) = k}

Elements(seq) == {seq[i] : i \in DOMAIN seq}

PopulateWrites == {w \in writes : w.run = run /\ w.kind \in {"value", "unit"}}

----------------------------------------------------------------------------
(* Properties *)

\* C3: the missing list returned holds exactly the sheets of the master that
\* the streamtable lacks, each once, in sorted order.
C3_MissingExactSorted ==
    pc # "start" =>
        /\ Elements(missing_sheets) = DOMAIN master \ DOMAIN stream
        /\ Len(missing_sheets) = Cardinality(DOMAIN master \ DOMAIN stream)
        /\ IsSorted(missing_sheets)

\* C4: a master sheet that the streamtable lacks, or that has no or an empty
\* mapping entry, keeps every cell it had on input, and at the end every other
\* sheet whose streamtable has unit tags has been given its header.
C4_SkippedSheetsUnmodified ==
    /\ \A n \in DOMAIN master :
          (n \notin DOMAIN stream \/ n \notin DOMAIN mapping_dict \/ mapping_dict[n] = <<>>)
             => master[n] = masterIn[n]
    /\ pc = "done" =>
          \A n \in DOMAIN master :
             (Processed(n) /\ UnitTags(stream[n].val[StreamHeaderRow]) # <<>>)
                => \E w \in writes : w.run = run /\ w.eq = n /\ w.kind = "header"

C4_Witness ==
    /\ pc = "done"
    /\ \E a, b, c \in DOMAIN master :
          /\ a \notin DOMAIN stream
          /\ b \in DOMAIN stream /\ b \notin DOMAIN mapping_dict
          /\ Processed(c) /\ master[c] # masterIn[c]

\* C7: in a second run on the output of the first, with the same streamtable
\* and mapping, no unit cell is written and every unit cell of the master
\* keeps the value the first run left.
C7_UnitsStableOnRerun ==
    run >= 2 =>
        /\ \A n \in DOMAIN master : \A r \in Rows : master[n].unit[r] = masterIn[n].unit[r]
        /\ \A w \in writes : w.kind = "unit" => w.run = 1

C7_Witness ==
    /\ run = 2
    /\ pc = "done"
    /\ \E w \in writes : w.kind = "unit" /\ w.run = 1

C9_OpenInclusiveCloseExclusive ==
    pc = "populate" =>
        LET mws == master[eq_type]
        IN  /\ \A k \in DOMAIN param_rows : param_rows[k] \in ScannedRows(mws)
            /\ \A r \in ScannedRows(mws) :
                  TruthyText(mws.name[r]) => Strip(mws.name[r]) \in DOMAIN param_rows
            /\ OpenRows(mws) = {} => param_rows = EmptyDict
            /\ Elements(extract_syscad_params(mws)) = DOMAIN param_rows

C9_Witness ==
    /\ pc = "populate"
    /\ LET mws == master[eq_type]
       IN  /\ OpenRows(mws) # {}
           /\ LET o == MinOf(OpenRows(mws))
              IN  /\ TruthyText(mws.name[o])
                  /\ Strip(mws.name[o]) \in DOMAIN param_rows
                  /\ param_rows[Strip(mws.name[o])] = o
                  /\ \E c \in Rows : c > o /\ Contains(mws.label[c], CloseLabel)
                                           /\ TruthyText(mws.name[c])

\* C9 (as claimed): every recorded parameter row lies strictly below the
\* opening row and strictly above the closing row.
C9_BothBoundariesExclusive ==
    pc = "populate" =>
        LET mws == master[eq_type]
        IN  \A k \in DOMAIN param_rows : param_rows[k] \in InteriorRows(mws)

\* C10: the tag at position i of a unit-tag list is the header of column 4+i
\* (the list ends at the first empty header cell), for the streamtable list
\* and for the master list, as read for the sheet in hand.
C10_TagPositionIsColumn ==
    (pc = "populate" /\ col_off = 0) =>
        /\ \A i \in DOMAIN stream_unit_tags :
              stream[eq_type].val[StreamHeaderRow][FirstTagCol + i - 1] = stream_unit_tags[i]
        /\ \A i \in DOMAIN master_unit_tags :
              master[eq_type].val[MasterHeaderRow][FirstTagCol + i - 1] = master_unit_tags[i]

\* the header cell of column c belongs to the run of non-empty cells that
\* starts at column 4
InLeadingRun(rowvals, c) == \A d \in FirstTagCol..c : Truthy(rowvals[d])

\* C2: a column of the master whose unit tag (row 3 of the input) no header
\* cell of the streamtable carries keeps every cell it had, the header cell
\* included.
C2_UnsharedColumnUntouched ==
    \A n \in DOMAIN master \cap DOMAIN stream :
       \A c \in ValCols :
          (/\ InLeadingRun(masterIn[n].val[MasterHeaderRow], c)
           /\ \A d \in ValCols : stream[n].val[StreamHeaderRow][d] # masterIn[n].val[MasterHeaderRow][c])
             => \A r \in Rows : master[n].val[r][c] = masterIn[n].val[r][c]

\* C1: at the end, for every processed sheet, every mapped pair whose
\* parameter and tag exist (the parameter not in the header row) and every
\* master column whose header is a unit tag of the streamtable header, the
\* master cell holds the streamtable cell of the tag row under that unit tag,
\* rounded to 2 decimals iff it is a float, and is as on input when that
\* cell is empty.
C1_ValuesUnderSharedTags ==
    pc = "done" =>
        \A n \in DOMAIN master :
           Processed(n) =>
              LET mws == master[n]
                  sws == stream[n]
                  prow == ParamRows(mws)
                  trow == StreamTagToRow(sws)
              IN  \A i \in DOMAIN mapping_dict[n] :
                     LET p == mapping_dict[n][i][1]
                         t == mapping_dict[n][i][2]
                     IN  (p \in DOMAIN prow /\ t \in DOMAIN trow /\ prow[p] # MasterHeaderRow) =>
                            \A mc \in ValCols :
                               LET u == mws.val[MasterHeaderRow][mc]
                                   heads == {sc \in ValCols : sws.val[StreamHeaderRow][sc] = u}
                               IN  (Truthy(u) /\ heads # {}) =>
                                      \E sc \in heads :
                                         LET src == sws.val[trow[t]][sc]
                                         IN  IF src.k # "none"
                                             THEN mws.val[prow[p]][mc] = WrittenValue(src)
                                             ELSE mws.val[prow[p]][mc] = masterIn[n].val[prow[p]][mc]

\* C6: at the end, for every processed sheet and every mapped pair whose
\* parameter and tag exist, the unit cell of the parameter row equals the
\* unit of the tag row when that is non-empty, whatever the headers share,
\* and is as on input when it is empty.
C6_UnitReconciledPerPair ==
    pc = "done" =>
        \A n \in DOMAIN master :
           Processed(n) =>
              LET mws == master[n]
                  sws == stream[n]
                  prow == ParamRows(mws)
                  trow == StreamTagToRow(sws)
              IN  \A i \in DOMAIN mapping_dict[n] :
                     LET p == mapping_dict[n][i][1]
                         t == mapping_dict[n][i][2]
                     IN  (p \in DOMAIN prow /\ t \in DOMAIN trow) =>
                            IF Truthy(sws.unit[trow[t]])
                            THEN mws.unit[prow[p]] = sws.unit[trow[t]]
                            ELSE mws.unit[prow[p]] = masterIn[n].unit[prow[p]]

\* the tag names of rows 3.. of a streamtable sheet
TagNames(sws) == {Strip(sws.tag[r]) : r \in {x \in SRows : x >= StreamBodyStart /\ TruthyText(sws.tag[x])}}

\* the parameter names that app.py offers for a master sheet
ParamNames(mws) == Elements(extract_syscad_params(mws))

\* C5: no value or unit cell is ever written for a mapped pair whose parameter
\* or tag does not exist; at the end the row of such a parameter is as on
\* input (but for header cells, if it is the header row), and every mapped
\* pair of the same sheet whose parameter and tag exist is populated: when
\* the streamtable has unit tags, its first value column holds the tag row's
\* first value and its unit the tag row's non-empty unit.
C5_AbsentPairWritesNothing ==
    /\ \A w \in writes :
          w.kind \in {"value", "unit"} =>
             w.param \in ParamNames(master[w.eq]) /\ w.tag \in TagNames(stream[w.eq])
    /\ pc = "done" =>
          \A n \in DOMAIN master :
             Processed(n) =>
                LET mws == master[n]
                    sws == stream[n]
                    prow == ParamRows(mws)
                    trow == StreamTagToRow(sws)
                IN  \A i \in DOMAIN mapping_dict[n] :
                       LET p == mapping_dict[n][i][1]
                           t == mapping_dict[n][i][2]
                       IN  IF p \in ParamNames(mws) /\ t \in TagNames(sws)
                           THEN UnitTags(sws.val[StreamHeaderRow]) # <<>> =>
                                   /\ sws.val[trow[t]][FirstTagCol].k # "none" =>
                                         mws.val[prow[p]][FirstTagCol] =
                                            WrittenValue(sws.val[trow[t]][FirstTagCol])
                                   /\ Truthy(sws.unit[trow[t]]) =>
                                         mws.unit[prow[p]] = sws.unit[trow[t]]
                           ELSE p \in ParamNames(mws) =>
                                   /\ mws.unit[prow[p]] = masterIn[n].unit[prow[p]]
                                   /\ prow[p] # MasterHeaderRow =>
                                         mws.val[prow[p]] = masterIn[n].val[prow[p]]

C5_Witness ==
    /\ pc = "done"
    /\ \E n \in DOMAIN master :
          /\ Processed(n)
          /\ \E i, j \in DOMAIN mapping_dict[n] :
                /\ mapping_dict[n][i][1] \in ParamNames(master[n])
                /\ mapping_dict[n][i][2] \notin TagNames(stream[n])
                /\ mapping_dict[n][j][2] \in TagNames(stream[n])
                /\ \E w \in PopulateWrites :
                      /\ w.eq = n /\ w.kind = "value"
                      /\ w.param = mapping_dict[n][j][1]
                      /\ master[n].val[w.row][w.col] # masterIn[n].val[w.row][w.col]

====
